---- MODULE Spec2Model ----
(***************************************************************************)
(* A model of ml_orbit_correction.py: the training loop of                 *)
(* OrbitCorrector.train, the worker-pool runs of                           *)
(* generate_augmented_training_data and validate_parallel, their worker    *)
(* functions, the shared progress counters and the on-disk data cache.     *)
(***************************************************************************)
EXTENDS Integers, Sequences, FiniteSets, TLC

(***************************************************************************)
(* Bounds of the model.                                                    *)
(***************************************************************************)
\* largest first id of a scenario range handed to the partitioning
MaxStart == 2
\* largest number of ids in a scenario range handed to the partitioning
MaxTotal == 7
\* largest worker count handed to the partitioning
MaxNumWorkers == 4
\* largest first id of the range of a direct call of a pool run
MaxSeedStart == 1
\* largest number of ids in the range of a direct call of a pool run
MaxSeeds == 3
\* largest worker count of a direct call of a pool run
MaxPoolWorkers == 2
\* how many times the caller repeats a direct call with the same arguments
NumCalls == 2
\* most samples in the initial training data
MaxTrain == 3
\* most epochs of a training run
MaxEpochs == 100
\* largest first id of the validation range
MaxValStart == 2
\* most ids in the validation range
MaxValSeeds == 1
\* the validation scores of the model are -1 .. MaxScoreK times ScoreStep
MaxScoreK == 3
\* largest id in a val_seeds handed to the derivation of the augmentation range
MaxValId == 4
\* most ids in a range val_seeds handed to that derivation
MaxValLen == 3

(***************************************************************************)
(* Constants of the program.                                               *)
(***************************************************************************)
\* if (epoch+1)%50==0
ValidationInterval == 50
\* num_workers=12 of the augmentation train runs
TrainNumWorkers == 12
\* seed_end = 16000 - 1
FallbackSeeds == 16000
\* the batch_size train is called with in the model
TrainBatchSize == 2
\* the distance between two validation scores of the model, in thousandths of a percent
ScoreStep == 4

(***************************************************************************)
(* Helpers.                                                                *)
(***************************************************************************)
Max(a, b) == IF a >= b THEN a ELSE b

Min(a, b) == IF a <= b THEN a ELSE b

\* list(range(a, b + 1)): the ids a..b in increasing order
RECURSIVE RangeList(_, _)
RangeList(a, b) == IF a > b THEN <<>> ELSE <<a>> \o RangeList(a + 1, b)

\* the concatenation of a sequence of sequences, in order
RECURSIVE Flatten(_)
Flatten(ss) == IF ss = <<>> THEN <<>> ELSE Head(ss) \o Flatten(Tail(ss))

\* seq[i:j] of Python for 0 <= i <= j <= len(seq)
Slice(seq, i, j) == SubSeq(seq, i + 1, j)

IsPrefix(s, t) == Len(s) <= Len(t) /\ SubSeq(t, 1, Len(s)) = s

(***************************************************************************)
(* Scenario-range partitioning.                                            *)
(***************************************************************************)
\* total_seeds = seed_range[1] - seed_range[0] + 1
TotalSeeds(start, end) == end - start + 1

\* batch_size = max(1, total_seeds // num_workers)
BatchSize(total, num_workers) == Max(1, total \div num_workers)

\* end = min(i + batch_size - 1, seed_range[1]), with the upper end exclusive
BatchEndOffByOne(i, batch_size, last) == Min(i + batch_size, last)

\* end = min(i + batch_size - 2, seed_range[1]): the sub-range one id short
BatchEndShort(i, batch_size, last) == Min(i + batch_size - 2, last)

\* end = min(i + batch_size - 1, seed_range[1])
BatchEnd(i, batch_size, last) == Min(i + batch_size - 1, last)

\* for i in range(seed_range[0], seed_range[1] + 1, batch_size):
\*     seed_batches.append((i, end))
RECURSIVE BatchesFrom(_, _, _)
BatchesFrom(i, last, batch_size) ==
    IF i > last THEN <<>>
    ELSE <<(<<i, BatchEnd(i, batch_size, last)>>)>>
             \o BatchesFrom(i + batch_size, last, batch_size)

\* the sub-ranges as if the range were cut into exactly num_workers pieces,
\* the last one taking the remainder
RECURSIVE EvenBatchesFrom(_, _, _, _)
EvenBatchesFrom(i, last, batch_size, left) ==
    IF left <= 0 \/ i > last THEN <<>>
    ELSE IF left = 1 THEN <<(<<i, last>>)>>
    ELSE <<(<<i, Min(i + batch_size - 1, last)>>)>>
             \o EvenBatchesFrom(i + batch_size, last, batch_size, left - 1)

SeedBatchesOnePerWorker(start, end, num_workers) ==
    EvenBatchesFrom(start, end,
                    BatchSize(TotalSeeds(start, end), num_workers), num_workers)

\* seed_batches of generate_augmented_training_data
SeedBatches(start, end, num_workers) ==
    BatchesFrom(start, end, BatchSize(TotalSeeds(start, end), num_workers))

\* for i in range(0, len(seed_list), batch_size):
\*     seed_batches.append(seed_list[i:min(i + batch_size, len(seed_list))])
RECURSIVE ListBatchesFrom(_, _, _)
ListBatchesFrom(i, seed_list, batch_size) ==
    IF i >= Len(seed_list) THEN <<>>
    ELSE <<Slice(seed_list, i, Min(i + batch_size, Len(seed_list)))>>
             \o ListBatchesFrom(i + batch_size, seed_list, batch_size)

\* seed_batches of validate_parallel
ValSeedBatches(seed_list, num_workers) ==
    ListBatchesFrom(0, seed_list, BatchSize(Len(seed_list), num_workers))

\* processes=min(num_workers, len(seed_batches))
PoolProcesses(num_workers, batches) == Min(num_workers, Len(batches))

(***************************************************************************)
(* Data: weights, normalizers, checkpoints, samples, paths and tags.       *)
(***************************************************************************)
\* the trainable parameters: the number of optimizer steps that produced
\* them, and after how many checkpoint loads they were last updated
InitialWeights == [from |-> 0, steps |-> 0]

\* StandardScaler() as _init_scalers leaves it: not fit
UnfitScalers == [fit |-> FALSE, on |-> <<>>]

\* the three scalers after fit_scalers(train_data)
FitScalers(train_data) == [fit |-> TRUE, on |-> train_data]

\* one sample of the initial training data
InitSample(i) == [kind |-> "init", id |-> i, w |-> InitialWeights]

\* [augmented_bpm_readings, predicted_corrections, target_corrections] of
\* scenario seed_num, predicted with the weights w
AugSample(seed_num, w) == [kind |-> "aug", id |-> seed_num, w |-> w]

\* improvement_str: a number formatted to two decimals (h hundredths),
\* "unknown" or "current_model"
TagNum(h) == [k |-> "num", h |-> h]

TagUnknown == [k |-> "unknown", h |-> 0]

TagCurrent == [k |-> "current_model", h |-> 0]

\* f"{x:.2f}" of a number x >= 0 given in thousandths: the nearest hundredth
Fmt2(x) == (x + 5) \div 10

\* model_path=None
NoPath == [kind |-> "none", epoch |-> 0, tag |-> TagCurrent]

\* f'saved_models/best_loss_model_epoch_{epoch+1}_improvement_{avg:.2f}pct.pt'
BestModelPath(epoch1, avg) == [kind |-> "best", epoch |-> epoch1, tag |-> TagNum(Fmt2(avg))]

\* float(model_path.split('improvement_')[1].split('pct.pt')[0]), in thousandths
ParseImprovement(path) == 10 * path.tag.h

\* improvement_str of generate_augmented_training_data
ImprovementStr(path) ==
    IF path.kind = "none" THEN TagCurrent
    ELSE IF path.kind = "best" THEN TagNum(Fmt2(ParseImprovement(path)))
    ELSE TagUnknown

\* os.path.join(cache_dir, f'tmp_model_for_augmentation_{improvement_str}.pt')
TmpAugPath(tag) == [kind |-> "tmp_aug", epoch |-> 0, tag |-> tag]

\* os.path.join('saved_models', 'tmp_model_for_validation.pt')
TmpValPath == [kind |-> "tmp_val", epoch |-> 0, tag |-> TagCurrent]

\* f'augmented_data_cache_{seed_range[0]}_{seed_range[1]}_model_imp_{improvement_str}pct.npz'
CacheFile(seed_range, tag) == [start |-> seed_range[1], end |-> seed_range[2], tag |-> tag]

\* a directory of files: a set of [path, content] with one entry per path
Exists(dir, path) == \E f \in dir : f.path = path

Content(dir, path) == (CHOOSE f \in dir : f.path = path).content

Write(dir, path, content) ==
    {f \in dir : f.path # path} \cup {[path |-> path, content |-> content]}

Remove(dir, path) == {f \in dir : f.path # path}

VARIABLES
    part_args,      \* the arguments of a partitioning: [start, total, num_workers]
    part_done,      \* which of the two partitionings have been made
    part_batches,   \* the sub-ranges generate_augmented_training_data builds
    part_lists,     \* the seed batches validate_parallel builds
    sr_val_seeds,   \* a val_seeds handed to the derivation of the augmentation range
    sr_seed_range,  \* (seed_start, seed_end) derived from it, <<>> before
    entry,          \* what the program calls: "train", "generate", "validate_parallel" or "none"
    bad_seeds,      \* the scenario ids whose seed file cannot be processed
    cache,          \* the files of cache_dir: cache file key -> augmented_data
    files,          \* the checkpoint files on disk: path -> [weights, scalers]
    model,          \* self.model: [weights, mode]
    scalers,        \* self.trajectory_scaler, corrector_scaler, initial_corrector_scaler
    stats,          \* counts of what was done: cache lookups, pool launches, fits, loads
    gpc,            \* where the main process is in generate_augmented_training_data / validate_parallel
    g,              \* the arguments and locals of that call
    g_ret,          \* what the call returned or raised
    progress_dict,  \* the manager dict: [exists, completed, successful]
    tasks,          \* result_objects and the worker tasks behind them
    mon,            \* the monitor loop: [pc, last_update, current, pbar, shown_successful]
    calls,          \* the arguments and the outcomes of the direct calls made so far
    tpc,            \* where train is: "start", "epoch", "validate", "gate", "augmenting", "returned", "raised"
    train_args,     \* the arguments of train
    train_ret,      \* "none", "returned", or the error that left train
    epoch,          \* the loop variable of train
    current_train_data,
    train_losses,
    val_losses,
    best_loss_improvement,
    best_model_path,
    has_improved_since_last_augmentation,
    augmentation_counter,
    last_batch      \* the model mode and the scalers the last training batch used

seedVars == <<sr_val_seeds, sr_seed_range>>

partVars == <<part_args, part_done, part_batches, part_lists, seedVars>>

trainVars == <<tpc, train_args, train_ret, epoch, current_train_data, train_losses,
               val_losses, best_loss_improvement, best_model_path,
               has_improved_since_last_augmentation, augmentation_counter, last_batch>>

mainVars == <<entry, bad_seeds, cache, files, model, scalers, stats,
              gpc, g, g_ret, progress_dict, tasks, mon, calls, trainVars>>

PartInit ==
    /\ part_args \in [start : 0 .. MaxStart,
                      total : 0 .. MaxTotal,
                      num_workers : 1 .. MaxNumWorkers]
    /\ part_done = {}
    /\ part_batches = <<>>
    /\ part_lists = <<>>

\* seed_range[1] of the range that starts at start and holds total ids
PartEnd == part_args.start + part_args.total - 1

\* generate_augmented_training_data builds its sub-ranges
PartitionRange ==
    /\ "range" \notin part_done
    /\ part_done' = part_done \cup {"range"}
    /\ part_batches' = SeedBatches(part_args.start, PartEnd, part_args.num_workers)
    /\ UNCHANGED <<part_args, part_lists, seedVars, mainVars>>

\* validate_parallel builds its seed batches from range(start, end + 1)
PartitionList ==
    /\ "list" \notin part_done
    /\ part_done' = part_done \cup {"list"}
    /\ part_lists' = ValSeedBatches(RangeList(part_args.start, PartEnd),
                                    part_args.num_workers)
    /\ UNCHANGED <<part_args, part_batches, seedVars, mainVars>>

PartNext == PartitionRange \/ PartitionList

(***************************************************************************)
(* The worker pool: generate_augmented_training_data, validate_parallel,   *)
(* _augment_worker_process, _validate_worker_process.                      *)
(***************************************************************************)
poolVars == <<gpc, g, g_ret, progress_dict, tasks, mon>>

NoProgress == [exists |-> FALSE, completed |-> 0, successful |-> 0]

NoMonitor == [pc |-> "off", last_update |-> 0, current |-> 0, pbar |-> 0,
              shown_successful |-> 0]

NoReturn == [kind |-> "none", data |-> <<>>, exc |-> ""]

NoCall == [mode |-> "none", caller |-> "none", seed_range |-> <<0, 0>>,
           val_list |-> <<>>, model_path |-> NoPath, num_workers |-> 0,
           tag |-> TagCurrent, seed_batches |-> <<>>, tmp_path |-> NoPath,
           processes |-> 0, launched |-> 0]

NoStats == [lookups |-> 0, launches |-> 0, fits |-> 0, loads |-> 0]

\* a call of generate_augmented_training_data(seed_range, model_path, num_workers=...)
AugmentCall(caller, seed_range, model_path, num_workers) ==
    [NoCall EXCEPT !.mode = "augment", !.caller = caller, !.seed_range = seed_range,
                   !.model_path = model_path, !.num_workers = num_workers]

\* a call of validate_parallel(val_seeds, num_workers)
ValidateParallelCall(caller, val_list, num_workers) ==
    [NoCall EXCEPT !.mode = "validate", !.caller = caller, !.val_list = val_list,
                   !.num_workers = num_workers]

\* save_model_and_scalers(filepath)
SaveModelAndScalers(dir, filepath) ==
    Write(dir, filepath, [weights |-> model.weights, scalers |-> scalers])

\* if os.path.exists(cache_file), with the test always false
CacheHitNever(dir, cache_file) == FALSE

\* if os.path.exists(cache_file)
CacheHit(dir, cache_file) == Exists(dir, cache_file)

\* self.model.load_state_dict(checkpoint['model_state_dict']), with the live
\* parameters kept
LoadStateDictKeepsLive(live, loaded) == live

\* self.model.load_state_dict(checkpoint['model_state_dict'])
LoadStateDict(live, loaded) == loaded

\* generate_augmented_training_data up to the cache lookup: load the model
\* when a path is given, derive the tag, return the cached data on a hit
GenBegin ==
    /\ gpc = "called"
    /\ g.mode = "augment"
    /\ g.model_path.kind # "none" => Exists(files, g.model_path)
    /\ LET loaded == g.model_path.kind # "none"
           ckpt == Content(files, g.model_path)
           tag == ImprovementStr(g.model_path)
           cache_file == CacheFile(g.seed_range, tag)
       IN  /\ model' = IF loaded
                       THEN [model EXCEPT !.weights = LoadStateDict(@, ckpt.weights)]
                       ELSE model
           /\ scalers' = IF loaded THEN ckpt.scalers ELSE scalers
           /\ stats' = [stats EXCEPT !.lookups = @ + 1,
                                     !.loads = IF loaded THEN @ + 1 ELSE @]
           /\ g' = [g EXCEPT !.tag = tag]
           /\ IF CacheHit(cache, cache_file)
              THEN /\ gpc' = "returned"
                   /\ g_ret' = [kind |-> "value", data |-> Content(cache, cache_file),
                                exc |-> ""]
              ELSE /\ gpc' = "miss"
                   /\ g_ret' = g_ret
    /\ UNCHANGED <<partVars, trainVars, entry, bad_seeds, cache, files, progress_dict, tasks, mon, calls>>

\* generate_augmented_training_data on a miss: the sub-ranges, the temporary
\* checkpoint and the progress counters
GenPrepare ==
    /\ gpc = "miss"
    /\ g' = [g EXCEPT !.seed_batches =
                          SeedBatches(g.seed_range[1], g.seed_range[2], g.num_workers),
                      !.tmp_path = TmpAugPath(g.tag)]
    /\ files' = SaveModelAndScalers(files, TmpAugPath(g.tag))
    /\ progress_dict' = [exists |-> TRUE, completed |-> 0, successful |-> 0]
    /\ gpc' = "launch"
    /\ UNCHANGED <<partVars, trainVars, entry, bad_seeds, cache, model, scalers, stats, g_ret, tasks, mon,
                   calls>>

\* validate_parallel up to the pool: the temporary checkpoint, the progress
\* counters and the seed batches
ValParBegin ==
    /\ gpc = "called"
    /\ g.mode = "validate"
    /\ g' = [g EXCEPT !.seed_batches = ValSeedBatches(g.val_list, g.num_workers),
                      !.tmp_path = TmpValPath]
    /\ files' = SaveModelAndScalers(files, TmpValPath)
    /\ progress_dict' = [exists |-> TRUE, completed |-> 0, successful |-> 0]
    /\ gpc' = "launch"
    /\ UNCHANGED <<partVars, trainVars, entry, bad_seeds, cache, model, scalers, stats, g_ret, tasks, mon,
                   calls>>

\* the scenario ids a worker task iterates over: range(start_seed, end_seed + 1)
\* in _augment_worker_process, seed_batch in _validate_worker_process
TaskIds(mode, batch) ==
    IF mode = "augment" THEN RangeList(batch[1], batch[2]) ELSE batch

NewTask(ids) ==
    [st |-> "queued", pc |-> "loop", ids |-> ids, idx |-> 1, ok |-> FALSE,
     worker_results |-> <<>>, ckpt |-> [weights |-> InitialWeights, scalers |-> UnfitScalers],
     reg |-> 0, exc |-> ""]

\* multiprocessing.Pool(processes=...) and one apply_async per sub-range
PoolLaunch ==
    /\ gpc = "launch"
    /\ LET processes == PoolProcesses(g.num_workers, g.seed_batches)
       IN  IF processes < 1
           THEN \* Pool raises ValueError("Number of processes must be at least 1")
                /\ gpc' = "raised"
                /\ g_ret' = [kind |-> "raise", data |-> <<>>, exc |-> "ValueError"]
                /\ UNCHANGED <<g, tasks, mon, stats>>
           ELSE /\ gpc' = "monitor"
                /\ g' = [g EXCEPT !.processes = processes,
                                  !.launched = Len(g.seed_batches)]
                /\ tasks' = [k \in 1 .. Len(g.seed_batches) |->
                                NewTask(TaskIds(g.mode, g.seed_batches[k]))]
                /\ mon' = [NoMonitor EXCEPT !.pc = "check"]
                /\ stats' = [stats EXCEPT !.launches = @ + Len(g.seed_batches)]
                /\ g_ret' = g_ret
    /\ UNCHANGED <<partVars, trainVars, entry, bad_seeds, cache, files, model, scalers, progress_dict, calls>>

Running == {k \in 1 .. Len(tasks) : tasks[k].st = "running"}

\* result.ready() of a task, with a running task taken for a finished one
ReadyOrRunning(k) == tasks[k].st \in {"done", "raised", "running"}

\* result.ready() of task k
Ready(k) == tasks[k].st \in {"done", "raised"}

\* the exit test of the monitor loop, made on the counter instead of the tasks
AllCounted ==
    progress_dict.completed >= Len(Flatten([k \in 1 .. Len(tasks) |-> tasks[k].ids]))

AllReady == \A k \in 1 .. Len(tasks) : Ready(k)

\* a pool process takes the next task of the queue: the worker creates its own
\* OrbitCorrector and loads the temporary checkpoint into it
TaskStart(t) ==
    /\ gpc = "monitor"
    /\ t \in 1 .. Len(tasks)
    /\ tasks[t].st = "queued"
    /\ \A k \in 1 .. t - 1 : tasks[k].st # "queued"
    /\ Cardinality(Running) < g.processes
    /\ tasks' = [tasks EXCEPT ![t] =
          IF Exists(files, g.tmp_path)
          THEN [@ EXCEPT !.st = "running", !.ckpt = Content(files, g.tmp_path)]
          ELSE [@ EXCEPT !.st = "raised", !.exc = "FileNotFoundError"]]
    /\ UNCHANGED <<partVars, trainVars, entry, bad_seeds, cache, files, model, scalers, stats, gpc, g, g_ret,
                   progress_dict, mon, calls>>

\* with progress_dict.get_lock(): with the lock left out, the block is entered
\* with nothing held
GetLockUnguarded == "unguarded"

\* with progress_dict.get_lock(): progress_dict is manager.dict(), a DictProxy,
\* which exposes the dict methods only ('__getitem__', '__setitem__', 'get',
\* ...) and no get_lock: evaluating progress_dict.get_lock raises AttributeError
GetLock == "AttributeError"

\* at.load_mat of a missing or broken seed file raises; predict_corrections
\* raises NotFittedError in prepare_input when the loaded scalers were never fit
ScenarioRaises(seed_num, ckpt) == seed_num \in bad_seeds \/ ~ckpt.scalers.fit

\* what a worker appends to worker_results for a scenario: the new training
\* sample (augmentation) or the dict of the seed's metrics (validation)
WorkerResult(mode, seed_num, w) ==
    IF mode = "augment" THEN AugSample(seed_num, w)
    ELSE [kind |-> "val", id |-> seed_num, w |-> w]

\* one step of a worker task; a task that has gone through its ids returns
\* worker_results
WorkerStep(t) ==
    /\ gpc = "monitor"
    /\ t \in 1 .. Len(tasks)
    /\ tasks[t].st = "running"
    /\ LET T == tasks[t] IN
       CASE T.pc = "loop" ->
              \* the scenario's try block up to the counter update
              /\ tasks' = [tasks EXCEPT ![t] =
                    IF T.idx > Len(T.ids)
                    THEN [@ EXCEPT !.st = "done"]
                    ELSE IF ScenarioRaises(T.ids[T.idx], T.ckpt)
                    THEN [@ EXCEPT !.pc = "except"]
                    ELSE [@ EXCEPT !.pc = "update",
                                   !.worker_results =
                                       Append(@, WorkerResult(g.mode, T.ids[T.idx],
                                                              T.ckpt.weights))]]
              /\ UNCHANGED progress_dict
         [] T.pc = "update" ->
              \* with progress_dict.get_lock(): inside the try block, so an
              \* error raised here is caught by except Exception
              /\ tasks' = [tasks EXCEPT ![t] =
                    IF GetLock = "AttributeError"
                    THEN [@ EXCEPT !.pc = "except"]
                    ELSE [@ EXCEPT !.pc = "read_completed", !.ok = TRUE]]
              /\ UNCHANGED progress_dict
         [] T.pc = "except" ->
              \* with progress_dict.get_lock(): inside the except block, so an
              \* error raised here leaves the worker function
              /\ tasks' = [tasks EXCEPT ![t] =
                    IF GetLock = "AttributeError"
                    THEN [@ EXCEPT !.st = "raised", !.exc = "AttributeError"]
                    ELSE [@ EXCEPT !.pc = "read_completed", !.ok = FALSE]]
              /\ UNCHANGED progress_dict
         [] T.pc = "read_completed" ->
              \* progress_dict['completed'] += 1: __getitem__ ...
              /\ tasks' = [tasks EXCEPT ![t] =
                    [@ EXCEPT !.reg = progress_dict.completed, !.pc = "write_completed"]]
              /\ UNCHANGED progress_dict
         [] T.pc = "write_completed" ->
              \* ... then __setitem__
              /\ progress_dict' = [progress_dict EXCEPT !.completed = T.reg + 1]
              /\ tasks' = [tasks EXCEPT ![t] =
                    IF T.ok THEN [@ EXCEPT !.pc = "read_successful"]
                    ELSE [@ EXCEPT !.pc = "loop", !.idx = @ + 1]]
         [] T.pc = "read_successful" ->
              /\ tasks' = [tasks EXCEPT ![t] =
                    [@ EXCEPT !.reg = progress_dict.successful, !.pc = "write_successful"]]
              /\ UNCHANGED progress_dict
         [] T.pc = "write_successful" ->
              /\ progress_dict' = [progress_dict EXCEPT !.successful = T.reg + 1]
              /\ tasks' = [tasks EXCEPT ![t] = [@ EXCEPT !.pc = "loop", !.idx = @ + 1]]
    /\ UNCHANGED <<partVars, trainVars, entry, bad_seeds, cache, files, model, scalers, stats, gpc, g, g_ret,
                   mon, calls>>

\* one step of the monitor loop while some task is not ready
MonitorPoll ==
    /\ gpc = "monitor"
    /\ CASE mon.pc = "check" ->
              \* if all(result.ready() ...): break
              /\ ~AllReady
              /\ mon' = [mon EXCEPT !.pc = "read"]
         [] mon.pc = "read" ->
              \* current = progress_dict['completed']
              LET current == progress_dict.completed IN
              mon' = [mon EXCEPT
                        !.current = current,
                        !.pbar = IF current > mon.last_update
                                 THEN @ + (current - mon.last_update) ELSE @,
                        !.last_update = IF current > @ THEN current ELSE @,
                        !.pc = IF current > mon.last_update /\ current > 0
                               THEN "read_successful" ELSE "check"]
         [] mon.pc = "read_successful" ->
              \* success_rate = 100 * progress_dict['successful'] / current
              mon' = [mon EXCEPT !.shown_successful = progress_dict.successful,
                                 !.pc = "check"]
    /\ UNCHANGED <<partVars, trainVars, entry, bad_seeds, cache, files, model, scalers, stats, gpc, g, g_ret,
                   progress_dict, tasks, calls>>

\* the indexes of the tasks that raised
Raised == {k \in 1 .. Len(tasks) : tasks[k].st = "raised"}

\* for result_obj in result_objects: worker_results = result_obj.get(); extend
CollectedResults == Flatten([k \in 1 .. Len(tasks) |-> tasks[k].worker_results])

\* the monitor loop ends, the results are collected, the temporary checkpoint
\* is removed, (augmentation) the cache file is written, the call returns;
\* result_obj.get() raises what its task raised
CollectResults ==
    /\ gpc = "monitor"
    /\ mon.pc = "check"
    /\ AllReady
    /\ mon' = [mon EXCEPT !.pc = "off"]
    /\ IF Raised # {}
       THEN /\ gpc' = "raised"
            /\ g_ret' = [kind |-> "raise", data |-> <<>>,
                         exc |-> tasks[CHOOSE k \in Raised : \A j \in Raised : k <= j].exc]
            /\ UNCHANGED <<files, cache>>
       ELSE /\ gpc' = "returned"
            /\ g_ret' = [kind |-> "value", data |-> CollectedResults, exc |-> ""]
            /\ files' = Remove(files, g.tmp_path)
            /\ cache' = IF g.mode = "augment"
                        THEN Write(cache, CacheFile(g.seed_range, g.tag), CollectedResults)
                        ELSE cache
    /\ UNCHANGED <<partVars, trainVars, entry, bad_seeds, model, scalers, stats, g, progress_dict, tasks, calls>>

(***************************************************************************)
(* OrbitCorrector.train.                                                   *)
(***************************************************************************)
\* a validation score: np.mean of the loss_improvement values, in thousandths
\* of a percent, or nan (the mean of an empty list)
Score(v) == [nan |-> FALSE, v |-> v]

NaN == [nan |-> TRUE, v |-> 0]

\* the validation scores the simulator can produce in the model
Scores == {ScoreStep * k : k \in -1 .. MaxScoreK}

\* a >= b in the place of a > b
GreaterOrEqual(a, b) == ~a.nan /\ a.v >= b

\* a > b of Python on a float a and a number b: False when a is nan
Greater(a, b) == ~a.nan /\ a.v > b

\* self.validate(val_seeds): one result per scenario of val_seeds that can be
\* processed, in order; a scenario that raises is skipped
Validate(val_list) == SelectSeq(val_list, LAMBDA seed_num : seed_num \notin bad_seeds)

\* list(val_seeds) of the range val_seeds
ValList(val_seeds) == RangeList(val_seeds.start, val_seeds.stop - 1)

\* the seed range of an augmentation:
\* (0, val_seeds.start - 1) when val_seeds is a range, (0, 16000 - 1) otherwise
AugmentSeedRange(val_seeds) ==
    IF val_seeds.is_range THEN <<0, val_seeds.start - 1>> ELSE <<0, FallbackSeeds - 1>>

\* val_seeds as a range(start, stop, step) with step 1 or -1
RangeSeeds(start, stop, step) ==
    [is_range |-> TRUE, start |-> start, stop |-> stop, step |-> step, ids |-> {}]

\* val_seeds as a list or another collection of ids
ListSeeds(ids) == [is_range |-> FALSE, start |-> 0, stop |-> 0, step |-> 1, ids |-> ids]

\* the scenario ids that belong to val_seeds
ValIds(val_seeds) ==
    IF ~val_seeds.is_range THEN val_seeds.ids
    ELSE IF val_seeds.step = 1 THEN val_seeds.start .. val_seeds.stop - 1
    ELSE val_seeds.stop + 1 .. val_seeds.start

\* epoch % 50 == 0: the validation counted from epoch 0
ValidationDueFromZero(e) == e % ValidationInterval = 0

\* (epoch+1) % 50 == 0
ValidationDue(e) == (e + 1) % ValidationInterval = 0

\* (epoch + 1) % augment_interval == 0
AugmentationDue(e) == (e + 1) % train_args.augment_interval = 0

\* range(0, len(current_train_data), batch_size): the number of batches
BatchCount(n, batch_size) == (n + batch_size - 1) \div batch_size

\* where train goes after the training loop of an epoch, with the
\* augmentation boundary looked at before the validation
AfterTrainingGateFirst(e) ==
    IF AugmentationDue(e) THEN "gate" ELSE IF ValidationDue(e) THEN "validate" ELSE "epoch"

\* where train goes after the training loop of an epoch / after validation
AfterTraining(e) ==
    IF ValidationDue(e) THEN "validate" ELSE IF AugmentationDue(e) THEN "gate" ELSE "epoch"

AfterValidation(e) == IF AugmentationDue(e) THEN "gate" ELSE "epoch"

\* train up to the epoch loop: fit the scalers, set up the locals
TrainBegin ==
    /\ entry = "train"
    /\ tpc = "start"
    /\ IF train_args.train_data = <<>>
       THEN \* fit_scalers: np.vstack of an empty list raises ValueError
            /\ tpc' = "raised"
            /\ train_ret' = "ValueError"
            /\ UNCHANGED <<scalers, stats, current_train_data>>
       ELSE /\ tpc' = "epoch"
            /\ scalers' = FitScalers(train_args.train_data)
            /\ stats' = [stats EXCEPT !.fits = @ + 1]
            /\ current_train_data' = train_args.train_data
            /\ train_ret' = train_ret
    /\ UNCHANGED <<partVars, poolVars, entry, bad_seeds, cache, files, model, calls,
                   train_args, epoch, train_losses, val_losses, best_loss_improvement,
                   best_model_path, has_improved_since_last_augmentation,
                   augmentation_counter, last_batch>>

\* self.model.train() at the top of the epoch, left out: the mode stays
ModeKept(mode) == mode

\* self.model.train() at the top of the epoch
ModelTrain(mode) == "train"

\* the training loop of one epoch: model.train(), one optimizer step per batch,
\* the average loss appended to train_losses
TrainEpoch ==
    /\ tpc = "epoch"
    /\ epoch < train_args.epochs
    /\ LET batch_count == BatchCount(Len(current_train_data), train_args.batch_size)
       IN  /\ model' = [weights |-> [from |-> stats.loads,
                                     steps |-> model.weights.steps + batch_count],
                        mode |-> ModelTrain(model.mode)]
           /\ last_batch' = [mode |-> ModelTrain(model.mode), scalers |-> scalers]
           /\ train_losses' = Append(train_losses, [epoch |-> epoch, batches |-> batch_count])
    /\ tpc' = AfterTraining(epoch)
    /\ epoch' = IF AfterTraining(epoch) = "epoch" THEN epoch + 1 ELSE epoch
    /\ UNCHANGED <<partVars, poolVars, entry, bad_seeds, cache, files, scalers, stats, calls,
                   train_args, train_ret, current_train_data, val_losses,
                   best_loss_improvement, best_model_path,
                   has_improved_since_last_augmentation, augmentation_counter>>

\* if avg_loss_improvement > best_loss_improvement, with the comparison
\* turned around to >=
IsNewBestOrEqual(avg, best) == ~avg.nan /\ avg.v >= best

\* if avg_loss_improvement > best_loss_improvement
IsNewBest(avg, best) == Greater(avg, best)

\* the validation step: model.eval(), validate, the best-model update, the
\* average appended to val_losses
TrainValidate ==
    /\ tpc = "validate"
    /\ \E avg \in {Score(v) : v \in Scores} \cup {NaN} :
          /\ avg.nan <=> Validate(ValList(train_args.val_seeds)) = <<>>
          /\ model' = [model EXCEPT !.mode = "eval"]
          /\ IF IsNewBest(avg, best_loss_improvement)
             THEN /\ best_loss_improvement' = avg.v
                  /\ files' = SaveModelAndScalers(files, BestModelPath(epoch + 1, avg.v))
                  /\ best_model_path' = BestModelPath(epoch + 1, avg.v)
                  /\ has_improved_since_last_augmentation' = TRUE
             ELSE UNCHANGED <<best_loss_improvement, files, best_model_path,
                              has_improved_since_last_augmentation>>
          /\ val_losses' = Append(val_losses, [epoch |-> epoch, avg |-> avg])
    /\ tpc' = AfterValidation(epoch)
    /\ epoch' = IF AfterValidation(epoch) = "epoch" THEN epoch + 1 ELSE epoch
    /\ UNCHANGED <<partVars, poolVars, entry, bad_seeds, cache, scalers, stats, calls,
                   train_args, train_ret, current_train_data, train_losses,
                   augmentation_counter, last_batch>>

\* if has_improved_since_last_augmentation or best_model_path is not None
GateOpenEither == has_improved_since_last_augmentation \/ best_model_path.kind # "none"

\* if has_improved_since_last_augmentation and best_model_path is not None
GateOpen == has_improved_since_last_augmentation /\ best_model_path.kind # "none"

\* the augmentation boundary: call generate_augmented_training_data with the
\* best model when the gate is open, go on to the next epoch otherwise
TrainGate ==
    /\ tpc = "gate"
    /\ IF GateOpen
       THEN /\ tpc' = "augmenting"
            /\ gpc' = "called"
            /\ g' = AugmentCall("train", AugmentSeedRange(train_args.val_seeds),
                                best_model_path, TrainNumWorkers)
            /\ g_ret' = NoReturn
            /\ progress_dict' = NoProgress
            /\ tasks' = <<>>
            /\ mon' = NoMonitor
            /\ epoch' = epoch
       ELSE /\ tpc' = "epoch"
            /\ epoch' = epoch + 1
            /\ UNCHANGED poolVars
    /\ UNCHANGED <<partVars, entry, bad_seeds, cache, files, model, scalers, stats, calls,
                   train_args, train_ret, current_train_data, train_losses, val_losses,
                   best_loss_improvement, best_model_path,
                   has_improved_since_last_augmentation, augmentation_counter, last_batch>>

\* np.concatenate([...]) keeping only the new data
ConcatenateNewOnly(current, new_augmented_data) == new_augmented_data

\* np.concatenate([current_train_data, new_augmented_data])
Concatenate(current, new_augmented_data) == current \o new_augmented_data

\* has_improved_since_last_augmentation = False, with the flag left set
FlagKeptAfterAugmentation == TRUE

\* has_improved_since_last_augmentation = False
FlagAfterAugmentation == FALSE

\* self.fit_scalers(current_train_data), fit on the new samples only
RefitInputNewOnly(train, new_augmented_data) == new_augmented_data

\* self.fit_scalers(current_train_data): the data the scalers are fit on again
RefitInput(train, new_augmented_data) == train

\* generate_augmented_training_data returned: the new data is added to the
\* training set, the flag is reset and the scalers are fit again
TrainAugmented ==
    /\ tpc = "augmenting"
    /\ gpc = "returned"
    /\ augmentation_counter' = augmentation_counter + 1
    /\ current_train_data' = Concatenate(current_train_data, g_ret.data)
    /\ has_improved_since_last_augmentation' = FlagAfterAugmentation
    /\ scalers' = FitScalers(RefitInput(current_train_data', g_ret.data))
    /\ stats' = [stats EXCEPT !.fits = @ + 1]
    /\ gpc' = "idle"
    /\ tpc' = "epoch"
    /\ epoch' = epoch + 1
    /\ UNCHANGED <<partVars, g, g_ret, progress_dict, tasks, mon, entry, bad_seeds, cache,
                   files, model, calls, train_args, train_ret, train_losses, val_losses,
                   best_loss_improvement, best_model_path, last_batch>>

\* generate_augmented_training_data raised: train has no handler, the error
\* leaves train
TrainAugmentRaised ==
    /\ tpc = "augmenting"
    /\ gpc = "raised"
    /\ tpc' = "raised"
    /\ train_ret' = g_ret.exc
    /\ gpc' = "idle"
    /\ UNCHANGED <<partVars, g, g_ret, progress_dict, tasks, mon, entry, bad_seeds, cache,
                   files, model, scalers, stats, calls, train_args, epoch,
                   current_train_data, train_losses, val_losses, best_loss_improvement,
                   best_model_path, has_improved_since_last_augmentation,
                   augmentation_counter, last_batch>>

\* the epoch loop is over: return train_losses, val_losses
TrainReturn ==
    /\ tpc = "epoch"
    /\ epoch >= train_args.epochs
    /\ tpc' = "returned"
    /\ train_ret' = "returned"
    /\ UNCHANGED <<partVars, poolVars, entry, bad_seeds, cache, files, model, scalers, stats,
                   calls, train_args, epoch, current_train_data, train_losses, val_losses,
                   best_loss_improvement, best_model_path,
                   has_improved_since_last_augmentation, augmentation_counter, last_batch>>

NoTrainArgs ==
    [train_data |-> <<>>, val_seeds |-> [is_range |-> TRUE, start |-> 0, stop |-> 0],
     epochs |-> 0, batch_size |-> 1, augment_interval |-> 1]

\* the locals of train before it runs
TrainIdle ==
    /\ tpc = "start"
    /\ train_ret = "none"
    /\ epoch = 0
    /\ current_train_data = <<>>
    /\ train_losses = <<>>
    /\ val_losses = <<>>
    /\ best_loss_improvement = 0
    /\ best_model_path = NoPath
    /\ has_improved_since_last_augmentation = FALSE
    /\ augmentation_counter = 0
    /\ last_batch = [mode |-> "none", scalers |-> UnfitScalers]

\* the states train starts from
TrainInit ==
    /\ entry = "train"
    /\ \E n \in {0, 1, MaxTrain}, epochs \in {0, 1, ValidationInterval, MaxEpochs},
          augment_interval \in {ValidationInterval \div 2, ValidationInterval,
                                2 * ValidationInterval},
          start \in 0 .. MaxValStart, count \in 1 .. MaxValSeeds :
          /\ train_args = [train_data |-> [i \in 1 .. n |-> InitSample(i)],
                           val_seeds |-> [is_range |-> TRUE, start |-> start,
                                          stop |-> start + count],
                           epochs |-> epochs, batch_size |-> TrainBatchSize,
                           augment_interval |-> augment_interval]
          /\ bad_seeds \in SUBSET (0 .. start + count - 1)
          /\ \E h \in 0 .. 1 :
                cache \in {{},
                           {[path |-> CacheFile(<<0, start - 1>>, TagNum(h)),
                             content |-> <<>>]},
                           {[path |-> CacheFile(<<0, start - 1>>, TagNum(h)),
                             content |-> <<AugSample(0, InitialWeights)>>]}}
    /\ files = {}
    /\ model = [weights |-> InitialWeights, mode |-> "train"]
    /\ scalers = UnfitScalers
    /\ stats = NoStats
    /\ gpc = "idle"
    /\ g = NoCall
    /\ g_ret = NoReturn
    /\ progress_dict = NoProgress
    /\ tasks = <<>>
    /\ mon = NoMonitor
    /\ calls = [args |-> NoCall, outcomes |-> <<>>]
    /\ TrainIdle

(***************************************************************************)
(* A caller that makes the same direct call of a pool run NumCalls times   *)
(* (the cache directory and the checkpoint files stay on disk in between). *)
(***************************************************************************)
DirectCall ==
    /\ entry \in {"generate", "validate_parallel"}
    /\ gpc = "idle"
    /\ Len(calls.outcomes) < NumCalls
    /\ gpc' = "called"
    /\ g' = calls.args
    /\ g_ret' = NoReturn
    /\ progress_dict' = NoProgress
    /\ tasks' = <<>>
    /\ mon' = NoMonitor
    /\ UNCHANGED <<partVars, trainVars, entry, bad_seeds, cache, files, model, scalers, stats, calls>>

\* the call returned or raised: the caller keeps the outcome
DirectDone ==
    /\ entry \in {"generate", "validate_parallel"}
    /\ gpc \in {"returned", "raised"}
    /\ calls' = [calls EXCEPT !.outcomes =
                    Append(@, [ret |-> g_ret, launched |-> g.launched,
                               completed |-> progress_dict.completed,
                               successful |-> progress_dict.successful])]
    /\ gpc' = "idle"
    /\ UNCHANGED <<partVars, trainVars, entry, bad_seeds, cache, files, model, scalers, stats, g, g_ret,
                   progress_dict, tasks, mon>>

\* a checkpoint saved by an earlier training run
EarlierBest == BestModelPath(50, 8)

EarlierCheckpoint ==
    [weights |-> [from |-> 0, steps |-> 50], scalers |-> FitScalers(<<InitSample(1)>>)]

\* the states a direct call starts from
DirectInit ==
    /\ entry \in {"generate", "validate_parallel"}
    /\ \E start \in 0 .. MaxSeedStart, total \in 0 .. MaxSeeds,
          num_workers \in 1 .. MaxPoolWorkers,
          model_path \in {NoPath, EarlierBest} :
          LET seed_range == <<start, start + total - 1>> IN
          /\ bad_seeds \in SUBSET (start .. start + total - 1)
          /\ IF entry = "generate"
             THEN /\ calls = [args |-> AugmentCall("direct", seed_range, model_path,
                                                   num_workers),
                              outcomes |-> <<>>]
                  /\ cache \in {{},
                                {[path |-> CacheFile(seed_range, ImprovementStr(model_path)),
                                  content |-> <<>>]},
                                {[path |-> CacheFile(seed_range, ImprovementStr(model_path)),
                                  content |-> <<AugSample(start, InitialWeights)>>]}}
             ELSE /\ model_path = NoPath
                  /\ calls = [args |-> ValidateParallelCall("direct",
                                           RangeList(start, start + total - 1), num_workers),
                              outcomes |-> <<>>]
                  /\ cache = {}
    /\ files = {[path |-> EarlierBest, content |-> EarlierCheckpoint]}
    /\ \/ model = [weights |-> InitialWeights, mode |-> "train"] /\ scalers = UnfitScalers
       \/ /\ model = [weights |-> [from |-> 0, steps |-> 60], mode |-> "train"]
          /\ scalers = FitScalers(<<InitSample(1), InitSample(2)>>)
    /\ stats = NoStats
    /\ gpc = "idle"
    /\ g = NoCall
    /\ g_ret = NoReturn
    /\ progress_dict = NoProgress
    /\ tasks = <<>>
    /\ mon = NoMonitor
    /\ train_args = NoTrainArgs
    /\ TrainIdle

PartIdle ==
    /\ part_args = [start |-> 0, total |-> 0, num_workers |-> 1]
    /\ part_done = {}
    /\ part_batches = <<>>
    /\ part_lists = <<>>

SeedIdle ==
    /\ sr_val_seeds = ListSeeds({})
    /\ sr_seed_range = <<>>

Init == PartIdle /\ SeedIdle /\ (DirectInit \/ TrainInit)

Next ==
    \/ DirectCall
    \/ GenBegin
    \/ GenPrepare
    \/ ValParBegin
    \/ PoolLaunch
    \/ \E t \in DOMAIN tasks : TaskStart(t)
    \/ \E t \in DOMAIN tasks : WorkerStep(t)
    \/ MonitorPoll
    \/ CollectResults
    \/ DirectDone
    \/ TrainBegin
    \/ TrainEpoch
    \/ TrainValidate
    \/ TrainGate
    \/ TrainAugmented
    \/ TrainAugmentRaised
    \/ TrainReturn

vars == <<partVars, mainVars>>

Spec == Init /\ [][Next]_vars

\* The steps of the calling process: train, generate_augmented_training_data
\* and the monitor loop are sequential code of one process, so a step of
\* theirs that can be taken is taken.
CallerNext ==
    \/ GenBegin
    \/ GenPrepare
    \/ ValParBegin
    \/ PoolLaunch
    \/ MonitorPoll
    \/ CollectResults
    \/ TrainBegin
    \/ TrainEpoch
    \/ TrainValidate
    \/ TrainGate
    \/ TrainAugmented
    \/ TrainAugmentRaised
    \/ TrainReturn

\* The steps of the pool's worker processes, which the operating system
\* schedules whatever the monitor loop of the caller does.
WorkersNext == \E t \in DOMAIN tasks : TaskStart(t) \/ WorkerStep(t)

FairSpec == Spec /\ WF_vars(CallerNext) /\ WF_vars(WorkersNext)

MainIdle ==
    /\ entry = "none"
    /\ bad_seeds = {}
    /\ cache = {}
    /\ files = {}
    /\ model = [weights |-> InitialWeights, mode |-> "train"]
    /\ scalers = UnfitScalers
    /\ stats = NoStats
    /\ gpc = "idle"
    /\ g = NoCall
    /\ g_ret = NoReturn
    /\ progress_dict = NoProgress
    /\ tasks = <<>>
    /\ mon = NoMonitor
    /\ calls = [args |-> NoCall, outcomes |-> <<>>]
    /\ train_args = NoTrainArgs
    /\ TrainIdle

PartSpecInit == PartInit /\ SeedIdle /\ MainIdle

SpecPartition == PartSpecInit /\ [][PartNext]_vars

\* the val_seeds train can be called with: ranges counting up or down, and
\* collections of ids that are not ranges
SeedRangeInit ==
    /\ sr_val_seeds \in
          {RangeSeeds(start, start + n, 1) : start \in 0 .. MaxValId, n \in 0 .. MaxValLen}
          \cup {RangeSeeds(start, start - n, -1) : start \in 0 .. MaxValId, n \in 0 .. MaxValLen}
          \cup {ListSeeds(ids) : ids \in SUBSET (0 .. MaxValId)}
    /\ sr_seed_range = <<>>

\* train derives the range of an augmentation from val_seeds
DeriveSeedRange ==
    /\ sr_seed_range = <<>>
    /\ sr_seed_range' = AugmentSeedRange(sr_val_seeds)
    /\ UNCHANGED <<part_args, part_done, part_batches, part_lists, sr_val_seeds, mainVars>>

SeedSpecInit == SeedRangeInit /\ PartIdle /\ MainIdle

SpecSeedRange == SeedSpecInit /\ [][DeriveSeedRange]_vars

(***************************************************************************)
(* Properties of the partitioning.                                         *)
(***************************************************************************)
\* the ids of sub-range k of part_batches
BatchIds(k) == part_batches[k][1] .. part_batches[k][2]

\* the ids of seed batch k of part_lists
ListIds(k) == {part_lists[k][j] : j \in 1 .. Len(part_lists[k])}

\* the ids of the range that was partitioned
PartIds == part_args.start .. PartEnd

\* C3: for a non-empty range and any worker count, the sub-ranges of
\* generate_augmented_training_data and the seed batches of validate_parallel
\* are contiguous, adjacent without gaps, pairwise disjoint, and their union is
\* exactly the ids of the range: every id belongs to exactly one of them.
PartitionIsExact ==
    /\ ("range" \in part_done /\ part_args.total >= 1) =>
          /\ Len(part_batches) >= 1
          /\ part_batches[1][1] = part_args.start
          /\ part_batches[Len(part_batches)][2] = PartEnd
          /\ \A k \in 1 .. Len(part_batches) :
                part_batches[k][1] <= part_batches[k][2]
          /\ \A k \in 1 .. Len(part_batches) - 1 :
                part_batches[k + 1][1] = part_batches[k][2] + 1
          /\ \A j, k \in 1 .. Len(part_batches) :
                j # k => BatchIds(j) \cap BatchIds(k) = {}
          /\ UNION {BatchIds(k) : k \in 1 .. Len(part_batches)} = PartIds
          /\ \A id \in PartIds :
                Cardinality({k \in 1 .. Len(part_batches) : id \in BatchIds(k)}) = 1
    /\ ("list" \in part_done /\ part_args.total >= 1) =>
          /\ Flatten(part_lists) = RangeList(part_args.start, PartEnd)
          /\ \A k \in 1 .. Len(part_lists) : Len(part_lists[k]) >= 1
          /\ \A j, k \in 1 .. Len(part_lists) :
                j # k => ListIds(j) \cap ListIds(k) = {}
          /\ \A id \in PartIds :
                Cardinality({k \in 1 .. Len(part_lists) : id \in ListIds(k)}) = 1

\* C3 witness: both partitionings were made of a range that does not divide
\* evenly, giving several sub-ranges the last of which is shorter
PartitionIsExactWitness ==
    /\ part_done = {"range", "list"}
    /\ part_args.total = 5
    /\ part_args.num_workers = 2
    /\ Len(part_batches) = 3
    /\ Len(part_lists) = 3

\* the number of ids in sub-range k of part_batches
BatchLen(k) == part_batches[k][2] - part_batches[k][1] + 1

\* C10 as stated: the range is cut into exactly num_workers sub-ranges, the
\* first num_workers - 1 of floor(R / W) ids and the last of
\* floor(R / W) + R mod W ids.
ExactlyOneBatchPerWorker ==
    ("range" \in part_done /\ part_args.total >= 1) =>
        /\ Len(part_batches) = part_args.num_workers
        /\ \A k \in 1 .. Len(part_batches) - 1 :
              BatchLen(k) = part_args.total \div part_args.num_workers
        /\ BatchLen(Len(part_batches)) =
              (part_args.total \div part_args.num_workers)
                 + (part_args.total % part_args.num_workers)

\* ceil(a / b) for b > 0
CeilDiv(a, b) == (a + b - 1) \div b

\* C10 as amended: with b = max(1, floor(R / W)) the range is cut into
\* ceil(R / b) sub-ranges; all but the last hold b ids and the last holds the
\* 1..b ids that remain; there are exactly W of them only when W divides R,
\* fewer when R < W and more otherwise; the pool gets min(W, sub-ranges)
\* processes, at least one.
BatchesOfBatchSize ==
    ("range" \in part_done /\ part_args.total >= 1) =>
        LET R == part_args.total
            W == part_args.num_workers
            b == Max(1, R \div W)
            n == Len(part_batches)
        IN  /\ n = CeilDiv(R, b)
            /\ \A k \in 1 .. n - 1 : BatchLen(k) = b
            /\ BatchLen(n) = R - b * (n - 1)
            /\ BatchLen(n) \in 1 .. b
            /\ (n = W) <=> (R % W = 0)
            /\ R < W => n = R
            /\ (R > W /\ R % W # 0) => n > W
            /\ PoolProcesses(W, part_batches) = Min(W, n)
            /\ PoolProcesses(W, part_batches) >= 1

\* C10 witness: 5 ids and 2 workers give the three sub-ranges of 2, 2 and 1 ids
BatchesOfBatchSizeWitness ==
    /\ "range" \in part_done
    /\ part_args.start = 1
    /\ part_args.total = 5
    /\ part_args.num_workers = 2
    /\ part_batches = <<(<<1, 2>>), (<<3, 4>>), (<<5, 5>>)>>

(***************************************************************************)
(* Properties of the worker-pool runs.                                     *)
(***************************************************************************)
\* the number of scenario ids of the pool run's range
PoolTotal ==
    IF g.mode = "augment" THEN TotalSeeds(g.seed_range[1], g.seed_range[2])
    ELSE Len(g.val_list)

\* a pool run was launched and every one of its worker tasks is over
PoolFinished == g.launched > 0 /\ Len(tasks) = g.launched /\ AllReady

CompletedEqualsTotal ==
    (PoolFinished /\ progress_dict.exists) => progress_dict.completed = PoolTotal

\* the ids of the pool run's range that fail inside a worker
FailingIds == {id \in UNION {{tasks[k].ids[j] : j \in 1 .. Len(tasks[k].ids)} :
                                k \in 1 .. Len(tasks)} :
                  \E k \in 1 .. Len(tasks) : ScenarioRaises(id, tasks[k].ckpt)}

\* C7: whatever ids fail inside a worker, every worker task attempts every id
\* of its sub-range, the pool run returns without raising, and its result has
\* exactly one entry per id that did not fail and none for an id that failed.
PoolRunSurvivesFailures ==
    (g.launched > 0 /\ gpc \in {"returned", "raised"}) =>
        /\ gpc = "returned"
        /\ \A k \in 1 .. Len(tasks) : tasks[k].idx = Len(tasks[k].ids) + 1
        /\ \A k \in 1 .. Len(tasks) : \A j \in 1 .. Len(tasks[k].ids) :
              LET id == tasks[k].ids[j] IN
              Cardinality({i \in 1 .. Len(g_ret.data) : g_ret.data[i].id = id})
                 = IF id \in FailingIds THEN 0 ELSE 1

\* C5: two calls of generate_augmented_training_data with the same key return
\* the same samples, and only the first of them launches worker tasks.
SecondCallServedFromCache ==
    (entry = "generate" /\ Len(calls.outcomes) >= 2) =>
        /\ calls.outcomes[1].ret.kind = "value"
        /\ calls.outcomes[2].ret = calls.outcomes[1].ret
        /\ calls.outcomes[2].launched = 0

\* the scenario ids of a list of samples, in the order of the list
SampleIds(data) == [i \in 1 .. Len(data) |-> data[i].id]

\* the ids of the direct call's range that do not fail, in the range's order
\* (with scalers that were never fit every scenario fails)
SuccessfulIds ==
    LET start == calls.args.seed_range[1]
        total == TotalSeeds(start, calls.args.seed_range[2])
    IN  SelectSeq([i \in 1 .. total |-> start + i - 1],
                  LAMBDA seed_num : seed_num \notin bad_seeds /\ scalers.fit)

\* the first of the direct calls ran a pool on a range with a failing id
FirstCallHadFailures ==
    /\ entry = "generate"
    /\ Len(calls.outcomes) >= 2
    /\ calls.outcomes[1].launched > 0
    /\ \E seed_num \in bad_seeds :
          seed_num \in calls.args.seed_range[1] .. calls.args.seed_range[2]

\* C24: when the pool run of a cache miss had failing scenarios, the call
\* returns the samples of the scenarios that succeeded, the cache entry of the
\* key holds exactly these, and the next call with the key returns them from
\* the cache without attempting the failed scenarios again.
FailedScenariosCachedOnce ==
    FirstCallHadFailures =>
        LET cache_file == CacheFile(calls.args.seed_range,
                                    ImprovementStr(calls.args.model_path))
        IN  /\ calls.outcomes[1].ret.kind = "value"
            /\ SampleIds(calls.outcomes[1].ret.data) = SuccessfulIds
            /\ Exists(cache, cache_file)
            /\ Content(cache, cache_file) = calls.outcomes[1].ret.data
            /\ calls.outcomes[2].ret = calls.outcomes[1].ret
            /\ calls.outcomes[2].launched = 0

(***************************************************************************)
(* Properties of the validation aggregate, the join and the cache.         *)
(***************************************************************************)
\* C11: when every scenario of a validation pass fails, the aggregation raises
\* instead of producing nan: no nan is ever appended to the validation-score
\* history of train, and a validation pass without a result ends in an error.
NoUndefinedScore ==
    /\ \A i \in 1 .. Len(val_losses) : ~val_losses[i].avg.nan
    /\ (entry = "train" /\ val_losses # <<>>)
          => Validate(ValList(train_args.val_seeds)) # <<>>

\* C12: the results of a pool run are collected only once every worker task
\* has finished, and the pool run then returns the workers' results
\* concatenated in sub-range order, whatever the order the tasks finished in.
PoolReturnsInSubRangeOrder ==
    /\ (g.launched > 0 /\ gpc \in {"returned", "raised"}) =>
          \A k \in 1 .. Len(tasks) : tasks[k].st \in {"done", "raised"}
    /\ (g.launched > 0 /\ gpc \in {"returned", "raised"}) =>
          /\ gpc = "returned"
          /\ g_ret.kind = "value"
          /\ g_ret.data = Flatten([k \in 1 .. Len(tasks) |->
                 [j \in 1 .. Len(tasks[k].ids) |->
                     WorkerResult(g.mode, tasks[k].ids[j], tasks[k].ckpt.weights)]])

\* the cache file of the call in progress
CallKey == CacheFile(g.seed_range, ImprovementStr(g.model_path))

\* C13: a call of generate_augmented_training_data whose key has an entry
\* returns exactly the stored samples, launches no worker task, creates no
\* progress counters and leaves the cache as it is, whatever checkpoint
\* model_path holds; and no step ever changes or removes an existing entry.
CacheHitReturnsStored ==
    [][/\ \A f \in cache : f \in cache'
       /\ (gpc = "called" /\ g.mode = "augment" /\ Exists(cache, CallKey)) =>
             /\ gpc' = "returned"
             /\ g_ret' = [kind |-> "value", data |-> Content(cache, CallKey), exc |-> ""]
             /\ tasks' = <<>>
             /\ g'.launched = 0
             /\ stats'.launches = stats.launches
             /\ ~progress_dict'.exists
             /\ cache' = cache
             /\ files' = files]_vars

\* C13 witness: in one train run the best checkpoint of epoch 100 has the tag
\* of the best checkpoint of epoch 50, and the second augmentation is served
\* the entry the first was served, made by neither of them
CacheHitReturnsStoredWitness ==
    /\ tpc = "augmenting"
    /\ gpc = "returned"
    /\ augmentation_counter = 1
    /\ best_model_path.kind = "best"
    /\ best_model_path.epoch = 2 * ValidationInterval
    /\ g.model_path = best_model_path
    /\ g.launched = 0
    /\ ~progress_dict.exists
    /\ g_ret.data # <<>>
    /\ \A i \in 1 .. Len(g_ret.data) : g_ret.data[i].w # model.weights

(***************************************************************************)
(* Properties of the augmentation gate, the workers' error handling and    *)
(* the augmentation range.                                                 *)
(***************************************************************************)
\* the validation steps of the history that recorded a new best checkpoint
NewBestEvents ==
    {i \in 1 .. Len(val_losses) :
        /\ ~val_losses[i].avg.nan
        /\ val_losses[i].avg.v > 0
        /\ \A j \in 1 .. i - 1 :
              val_losses[j].avg.nan \/ val_losses[i].avg.v > val_losses[j].avg.v}

\* train is inside an augmentation, or was left by the error of one
AugmentationInFlight ==
    tpc = "augmenting" \/ (tpc = "raised" /\ g.caller = "train")

\* the augmentations executed so far: those that returned and the one begun
ExecutedAugmentations ==
    augmentation_counter + IF AugmentationInFlight THEN 1 ELSE 0

\* the augmentations executed, plus one while the flag waits for the next
\* boundary, are at most the new-best events
AugmentationsWithinNewBest ==
    ExecutedAugmentations
       + (IF has_improved_since_last_augmentation /\ ~AugmentationInFlight
          THEN 1 ELSE 0)
    <= Cardinality(NewBestEvents)

\* C14: the augmentations executed never outnumber the new-best events, and
\* while the flag waits for the next boundary one new-best event is still
\* unused: every executed augmentation has a new best of its own after the
\* augmentation before it; an augmentation begins only with the flag set.
AugmentationNeedsNewBest ==
    /\ []AugmentationsWithinNewBest
    /\ [][(tpc # "augmenting" /\ tpc' = "augmenting")
            => has_improved_since_last_augmentation]_vars

\* C14 witness: two augmentations were executed, each after a new best, and a
\* boundary in between was passed without one
AugmentationNeedsNewBestWitness ==
    /\ augmentation_counter = 2
    /\ Cardinality(NewBestEvents) = 2
    /\ ~has_improved_since_last_augmentation
    /\ train_args.augment_interval = ValidationInterval \div 2
    /\ tpc = "returned"

\* C15: at a boundary where the flag is set and a best checkpoint exists,
\* generate_augmented_training_data is called with the best checkpoint, and
\* the augmentation ends with the returned samples appended at the end of the
\* training set, the flag cleared and the normalizers fit on the new set before
\* the next epoch.
OpenGateAugments ==
    [][/\ (tpc = "gate" /\ has_improved_since_last_augmentation
               /\ best_model_path.kind # "none") =>
             /\ tpc' = "augmenting"
             /\ g'.mode = "augment"
             /\ g'.model_path = best_model_path
       /\ (tpc = "augmenting" /\ tpc' # "augmenting") =>
             /\ tpc' = "epoch"
             /\ epoch' = epoch + 1
             /\ current_train_data' = current_train_data \o g_ret.data
             /\ ~has_improved_since_last_augmentation'
             /\ scalers' = FitScalers(current_train_data')]_vars

\* a worker task of the pool run loaded normalizers that were never fit, so
\* that its predictor fails structurally on every scenario
StructuralFailure ==
    \E k \in 1 .. Len(tasks) :
        /\ tasks[k].st # "queued"
        /\ tasks[k].ids # <<>>
        /\ ~tasks[k].ckpt.scalers.fit

\* C16: a structural failure of the predictor inside a worker is not handled
\* by the per-scenario handler: the pool run raises that error to its caller
\* and never returns normally with the scenario skipped.
StructuralFailurePropagates ==
    /\ \A k \in 1 .. Len(tasks) :
          (tasks[k].st = "running" /\ ~tasks[k].ckpt.scalers.fit)
             => tasks[k].pc # "except"
    /\ (StructuralFailure /\ gpc \in {"returned", "raised"}) =>
          /\ gpc = "raised"
          /\ g_ret.exc = "NotFittedError"

\* the ids of the range (seed_start, seed_end)
SeedRangeIds(seed_range) == seed_range[1] .. seed_range[2]

\* C17: whatever val_seeds is, a range or another collection of ids, the range
\* of an augmentation holds no id of val_seeds.
AugmentationAvoidsValidation ==
    sr_seed_range # <<>> =>
        ValIds(sr_val_seeds) \cap SeedRangeIds(sr_seed_range) = {}

(***************************************************************************)
(* Properties of the monitor, the normalizers and the checkpoint snapshot. *)
(***************************************************************************)
\* every worker task of the pool run has finished
TasksFinished == \A k \in 1 .. Len(tasks) : tasks[k].st \in {"done", "raised"}

\* what a pool run hands to its caller, from the worker tasks alone
OutcomeOfTasks ==
    LET raised == {k \in 1 .. Len(tasks) : tasks[k].st = "raised"} IN
    IF raised # {}
    THEN [kind |-> "raise", data |-> <<>>,
          exc |-> tasks[CHOOSE k \in raised : \A j \in raised : k <= j].exc]
    ELSE [kind |-> "value", exc |-> "",
          data |-> Flatten([k \in 1 .. Len(tasks) |-> tasks[k].worker_results])]

\* at its exit test the monitor loop is left exactly when the tasks have
\* finished, and a running worker can always take its next step
MonitorDecidesOnTasks ==
    /\ (gpc = "monitor" /\ mon.pc = "check") => (ENABLED CollectResults <=> TasksFinished)
    /\ \A t \in 1 .. Len(tasks) :
          (gpc = "monitor" /\ tasks[t].st = "running") => ENABLED WorkerStep(t)

\* C18: the counters are for display only. The monitor loop is left exactly
\* when every task has finished, what the pool run returns or raises is a
\* function of the tasks' results, a step of the monitor changes neither the
\* tasks nor the counters and never disables a worker, and a pool run that was
\* launched always comes to its end.
CountersForDisplayOnly ==
    /\ []MonitorDecidesOnTasks
    /\ [][/\ (gpc = "monitor" /\ gpc' # "monitor") =>
                 (TasksFinished /\ g_ret' = OutcomeOfTasks /\ tasks' = tasks)
          /\ (gpc = "monitor" /\ mon' # mon) =>
                 UNCHANGED <<tasks, progress_dict, files, cache>>]_vars
    /\ (gpc = "monitor") ~> (gpc \in {"returned", "raised"})

\* C18 witness: the monitor is reading the counter while one worker task has
\* finished and another is in the middle of a scenario
CountersForDisplayOnlyWitness ==
    /\ gpc = "monitor"
    /\ mon.pc = "read"
    /\ \E j, k \in 1 .. Len(tasks) :
          /\ tasks[j].st = "raised"
          /\ tasks[k].st = "running"
          /\ tasks[k].pc = "update"

\* C19: every epoch's batches are normalized by normalizers that have been
\* fit, and fit on exactly the whole current training set: the initial
\* samples and every sample an augmentation appended, not the normalizers a
\* checkpoint load left behind.
EpochUsesFitOnWholeSet ==
    [][(tpc = "epoch" /\ Len(train_losses') = Len(train_losses) + 1) =>
          /\ scalers.fit
          /\ scalers = FitScalers(current_train_data)
          /\ last_batch'.scalers = FitScalers(current_train_data)
          /\ train_args.train_data \o
                SubSeq(current_train_data, Len(train_args.train_data) + 1,
                       Len(current_train_data)) = current_train_data]_vars

\* C19 witness: an epoch ran after an augmentation that loaded a checkpoint
\* and appended a sample, with normalizers fit on the longer training set
EpochUsesFitOnWholeSetWitness ==
    /\ tpc = "epoch"
    /\ stats.loads = 1
    /\ augmentation_counter = 1
    /\ Len(current_train_data) = Len(train_args.train_data) + 1
    /\ last_batch.scalers = FitScalers(current_train_data)
    /\ Len(train_losses) > ValidationInterval

\* the snapshot of the pool run in progress
Snapshot(dir) == Content(dir, g.tmp_path)

\* while a pool run is being launched or is on, its snapshot is on disk, no
\* task exists before the launch, and every task that started holds it
SnapshotOnDisk ==
    gpc \in {"launch", "monitor"} =>
        /\ Exists(files, g.tmp_path)
        /\ \A k \in 1 .. Len(tasks) :
              (tasks[k].st \in {"running", "done"}) => (tasks[k].ckpt = Snapshot(files))
        /\ (gpc = "launch") => (tasks = <<>>)

\* C20: the snapshot is on disk before a worker task is launched; while the
\* pool run is on, it is neither rewritten nor deleted unless every task has
\* finished; and every task that started holds the content of that snapshot.
SnapshotIsShared ==
    /\ []SnapshotOnDisk
    /\ [][(gpc \in {"launch", "monitor"}) =>
             \/ Exists(files', g.tmp_path) /\ Snapshot(files') = Snapshot(files)
             \/ ~Exists(files', g.tmp_path) /\ TasksFinished /\ tasks # <<>>]_vars

\* C20 witness: with more sub-ranges than pool processes, a task that waited
\* in the queue runs on the same snapshot as a task that is over
SnapshotIsSharedWitness ==
    /\ gpc = "monitor"
    /\ Len(tasks) > g.processes
    /\ tasks[1].st = "raised"
    /\ tasks[Len(tasks)].st = "running"
    /\ tasks[1].ckpt = Snapshot(files)
    /\ tasks[Len(tasks)].ckpt = Snapshot(files)

(***************************************************************************)
(* Properties of the model's mode, the order of validation and gate, and   *)
(* the weights after an augmentation.                                      *)
(***************************************************************************)
\* the step is the training loop of one epoch
EpochStep == tpc = "epoch" /\ Len(train_losses') = Len(train_losses) + 1

\* C21: every training batch is made with the model in training mode: an
\* epoch that follows a validation step or an augmentation, which leave the
\* model in evaluation mode, switches it back before its first batch.
BatchesInTrainingMode ==
    /\ [](last_batch.mode \in {"none", "train"})
    /\ [][EpochStep => (last_batch'.mode = "train" /\ model'.mode = "train")]_vars

\* C21 witness: the epoch after the validation of epoch 49 trained its batches
\* in training mode
BatchesInTrainingModeWitness ==
    /\ tpc = "epoch"
    /\ Len(val_losses) = 1
    /\ Len(train_losses) = ValidationInterval + 1
    /\ last_batch.mode = "train"
    /\ model.mode = "train"

\* epoch e is a validation step and an augmentation boundary
BothDue(e) ==
    /\ (e + 1) % ValidationInterval = 0
    /\ (e + 1) % train_args.augment_interval = 0

\* the validation of this epoch recorded a new best checkpoint
NewBestThisEpoch ==
    /\ best_model_path.kind = "best"
    /\ best_model_path.epoch = epoch + 1

\* C22: at an epoch that is a validation step and an augmentation boundary,
\* the training loop is followed by the validation, the validation by the
\* gate, and a new best recorded by that validation opens the gate, which
\* calls the augmentation with the checkpoint just saved from the live model.
ValidationBeforeGate ==
    [][/\ (EpochStep /\ BothDue(epoch)) => (tpc' = "validate" /\ epoch' = epoch)
       /\ (tpc = "validate" /\ BothDue(epoch)) => (tpc' = "gate" /\ epoch' = epoch)
       /\ (tpc = "gate" /\ NewBestThisEpoch) =>
             /\ val_losses[Len(val_losses)].epoch = epoch
             /\ has_improved_since_last_augmentation
             /\ tpc' = "augmenting"
             /\ g'.model_path = best_model_path
             /\ Exists(files, best_model_path)
             /\ Content(files, best_model_path).weights = model.weights]_vars

\* C22 witness: the validation of epoch 49 saved a new best and the
\* augmentation of that same epoch was called with it
ValidationBeforeGateWitness ==
    /\ tpc = "augmenting"
    /\ gpc = "called"
    /\ epoch = ValidationInterval - 1
    /\ train_args.augment_interval = ValidationInterval
    /\ Len(val_losses) = 1
    /\ NewBestThisEpoch
    /\ g.model_path = best_model_path

\* the optimizer steps train has made so far
RECURSIVE TrainedSteps(_)
TrainedSteps(losses) ==
    IF losses = <<>> THEN 0 ELSE Head(losses).batches + TrainedSteps(Tail(losses))

\* an augmentation of train is past its load of model_path
AugmentationLoaded == tpc = "augmenting" /\ gpc # "called"

\* past the load, the live weights are those of the best checkpoint
BestWeightsLoaded ==
    AugmentationLoaded => (model.weights = Content(files, best_model_path).weights)

\* the first step of an augmentation loads the best checkpoint, whether the
\* cache is hit or missed; the return to the epoch loop leaves the model alone
LoadsBestThenKeeps ==
    /\ (tpc = "augmenting" /\ gpc = "called") =>
          /\ model'.weights = Content(files, best_model_path).weights
          /\ gpc' \in {"returned", "miss"}
    /\ (tpc = "augmenting" /\ tpc' = "epoch") => (model' = model)

\* C23: every executed augmentation of train puts the weights of the best
\* checkpoint into the live model before the cache lookup, on a hit and on a
\* miss alike, and they stay there until the next epoch trains from them.
AugmentationRestoresBest ==
    /\ []BestWeightsLoaded
    /\ [][LoadsBestThenKeeps]_vars

\* C23 witness: the augmentation of epoch 99 loaded the best checkpoint of
\* epoch 50, so the updates of the 50 epochs after it are gone
AugmentationRestoresBestWitness ==
    /\ AugmentationLoaded
    /\ epoch = 2 * ValidationInterval - 1
    /\ best_model_path.kind = "best"
    /\ best_model_path.epoch = ValidationInterval
    /\ model.weights = Content(files, best_model_path).weights
    /\ model.weights.steps < TrainedSteps(train_losses)

(***************************************************************************)
(* Properties of train.                                                    *)
(***************************************************************************)
\* C4: at an augmentation boundary where the improvement flag is false, no
\* pool is run, no cache lookup is made, the training set stays as it is and
\* the scalers are not fit again: train goes on to the next epoch.
ClosedGateChangesNothing ==
    [][(tpc = "gate" /\ ~has_improved_since_last_augmentation) =>
          /\ tpc' = "epoch"
          /\ epoch' = epoch + 1
          /\ current_train_data' = current_train_data
          /\ scalers' = scalers
          /\ stats' = stats
          /\ cache' = cache
          /\ files' = files
          /\ model' = model
          /\ UNCHANGED poolVars]_vars

\* C4 witness: the boundary at epoch 75 was passed with the flag false, after
\* the augmentation of epoch 50 had used the improvement of that epoch
ClosedGateChangesNothingWitness ==
    /\ tpc = "epoch"
    /\ train_args.augment_interval = ValidationInterval \div 2
    /\ epoch = 3 * train_args.augment_interval
    /\ augmentation_counter = 1
    /\ best_model_path.kind = "best"
    /\ ~has_improved_since_last_augmentation
    /\ Len(current_train_data) = Len(train_args.train_data) + 1

\* the score the validation step of this transition appended to val_losses
NewScore == val_losses'[Len(val_losses')].avg

ValidationStep == tpc = "validate" /\ Len(val_losses') = Len(val_losses) + 1

\* the checkpoint of the current model was saved and is the recorded best
SavedAsBest ==
    LET path == BestModelPath(epoch + 1, NewScore.v) IN
    /\ best_model_path' = path
    /\ Exists(files', path)
    /\ Content(files', path) = [weights |-> model.weights, scalers |-> scalers]
    /\ best_loss_improvement' = NewScore.v
    /\ has_improved_since_last_augmentation'

BestUnchanged ==
    UNCHANGED <<best_model_path, best_loss_improvement, files,
                has_improved_since_last_augmentation>>

\* C6 as stated: a validation score strictly greater than every score seen
\* earlier in the run is saved as the new best and sets the flag; any other
\* score leaves the best checkpoint, the best score and the flag alone; the
\* best score never decreases.
BestFollowsEarlierScores ==
    [][/\ ValidationStep =>
             IF /\ ~NewScore.nan
                /\ \A i \in 1 .. Len(val_losses) :
                      Greater(NewScore, val_losses[i].avg.v) /\ ~val_losses[i].avg.nan
             THEN SavedAsBest
             ELSE BestUnchanged
       /\ best_loss_improvement' >= best_loss_improvement]_vars

\* C6 as amended: the best score starts at 0, and a validation score is saved
\* as the new best exactly when it is a number strictly greater than 0 and
\* than every number among the earlier scores; a score that is nan, or <= 0,
\* or <= an earlier score changes nothing; the best score never decreases.
BestFollowsScoresAboveZero ==
    [][/\ ValidationStep =>
             IF /\ ~NewScore.nan
                /\ NewScore.v > 0
                /\ \A i \in 1 .. Len(val_losses) :
                      val_losses[i].avg.nan \/ NewScore.v > val_losses[i].avg.v
             THEN SavedAsBest
             ELSE BestUnchanged
       /\ best_loss_improvement' >= best_loss_improvement]_vars

\* C6 witness: the second validation of a run beat the first and was saved
BestFollowsScoresAboveZeroWitness ==
    /\ Len(val_losses) = 2
    /\ val_losses[1].avg = Score(ScoreStep)
    /\ val_losses[2].avg = Score(2 * ScoreStep)
    /\ best_loss_improvement = 2 * ScoreStep
    /\ best_model_path = BestModelPath(2 * ValidationInterval, 2 * ScoreStep)
    /\ Exists(files, best_model_path)
    /\ has_improved_since_last_augmentation

\* in every state of train: the loop counter never passes `epochs`, there is
\* one training loss per epoch run, train raises only when a pool run raised,
\* and what it returns has one training loss per epoch and one validation
\* score per validation step, floor(epochs / 50) of them, in epoch order.
TrainHistoriesInv ==
    /\ epoch <= train_args.epochs
    /\ Len(train_losses) \in {epoch, epoch + 1}
    /\ (tpc = "raised" /\ train_args.train_data # <<>>) => g_ret.kind = "raise"
    /\ tpc = "returned" =>
          /\ epoch = train_args.epochs
          /\ Len(train_losses) = train_args.epochs
          /\ \A i \in 1 .. Len(train_losses) : train_losses[i].epoch = i - 1
          /\ Len(val_losses) = train_args.epochs \div ValidationInterval
          /\ \A j \in 1 .. Len(val_losses) :
                val_losses[j].epoch = ValidationInterval * j - 1

\* C8: with a non-empty training set, train leaves its epoch loop: it returns
\* after exactly `epochs` iterations with one training loss per epoch and
\* floor(epochs / 50) validation scores in epoch order, or it raises what a
\* pool run raised.
TrainReturnsHistories ==
    /\ []TrainHistoriesInv
    /\ (tpc = "start" /\ train_args.train_data # <<>>)
          ~> (tpc \in {"returned", "raised"})

\* C8 witness: a run of 100 epochs with an augmentation returned
TrainReturnsHistoriesWitness ==
    /\ tpc = "returned"
    /\ train_args.epochs = 2 * ValidationInterval
    /\ Len(train_losses) = 2 * ValidationInterval
    /\ Len(val_losses) = 2
    /\ augmentation_counter >= 1

\* C9: the training set of a train run is append-only: what it held before a
\* step is a prefix of what it holds after it.
TrainingSetAppendOnly ==
    [][/\ IsPrefix(current_train_data, current_train_data')
       /\ Len(current_train_data') >= Len(current_train_data)]_vars

\* C9 witness: two augmentations have each added a sample to the training set
TrainingSetAppendOnlyWitness ==
    /\ augmentation_counter = 2
    /\ Len(train_args.train_data) = MaxTrain
    /\ Len(current_train_data) = MaxTrain + 2
    /\ SubSeq(current_train_data, 1, MaxTrain) = train_args.train_data

(***************************************************************************)
(* Properties of the best score's start value and of the sub-ranges.       *)
(***************************************************************************)
\* some validation of the run so far scored above 0
PositiveScoreSeen ==
    \E i \in 1 .. Len(val_losses) : ~val_losses[i].avg.nan /\ val_losses[i].avg.v > 0

\* train has called generate_augmented_training_data
AugmentationStarted ==
    tpc = "augmenting" \/ stats.lookups > 0 \/ augmentation_counter > 0

\* C25: the best score starts at 0, so a best checkpoint is recorded only
\* once a validation has scored above 0; no augmentation starts before that,
\* and a run whose scores are all at most 0 (or nan) saves no checkpoint and
\* keeps the training set it was given.
NoBestWithoutPositiveScore ==
    entry = "train" =>
        /\ (best_model_path.kind # "none") => PositiveScoreSeen
        /\ AugmentationStarted => PositiveScoreSeen
        /\ ~PositiveScoreSeen =>
              /\ best_loss_improvement = 0
              /\ ~has_improved_since_last_augmentation
              /\ files = {}
              /\ stats.fits <= 1
              /\ (tpc # "start") => (current_train_data = train_args.train_data)

\* C25 witness: a run of 100 epochs with a boundary at each validation has
\* returned; its two validations scored below 0 and 0, no checkpoint was
\* saved and the training set is the one given
NoBestWithoutPositiveScoreWitness ==
    /\ entry = "train"
    /\ tpc = "returned"
    /\ train_args.augment_interval = ValidationInterval
    /\ Len(val_losses) = 2
    /\ val_losses[1].avg = Score(-ScoreStep)
    /\ val_losses[2].avg = Score(0)
    /\ best_model_path = NoPath
    /\ files = {}
    /\ current_train_data = train_args.train_data
    /\ Len(current_train_data) = MaxTrain

\* C26: for a range of R >= 1 ids and W >= 1 workers every sub-range of
\* generate_augmented_training_data holds at least one id, there are between
\* 1 and R sub-ranges, and the pool gets min(W, sub-ranges) >= 1 processes;
\* for an empty range no sub-range is built.
SubRangesNonEmpty ==
    "range" \in part_done =>
        LET R == part_args.total
            W == part_args.num_workers
            n == Len(part_batches)
        IN  /\ (R >= 1) =>
                  /\ \A k \in 1 .. n : BatchLen(k) >= 1
                  /\ n \in 1 .. R
                  /\ PoolProcesses(W, part_batches) = Min(W, n)
                  /\ PoolProcesses(W, part_batches) \in 1 .. W
            /\ (R = 0) =>
                  /\ part_batches = <<>>
                  /\ PoolProcesses(W, part_batches) = 0

\* C26 witness: 2 ids and 4 workers give two sub-ranges of one id each and a
\* pool of two processes
SubRangesNonEmptyWitness ==
    /\ "range" \in part_done
    /\ part_args.start = 0
    /\ part_args.total = 2
    /\ part_args.num_workers = MaxNumWorkers
    /\ part_batches = <<(<<0, 0>>), (<<1, 1>>)>>
    /\ PoolProcesses(part_args.num_workers, part_batches) = 2

====
